---- MODULE Spec2Model ----
(***************************************************************************)
(* The log post-processing pipeline of sane-lab/Spacker:                   *)
(*   analysis/overhead/pareto/pareto_curve_batching.py      ReadFile()     *)
(*   analysis/workloads/breakdown/breakdown_batching_input_rate.py         *)
(*                                                ReadFile(repeat_num)     *)
(* Each script is a sequential program; a behaviour runs one of them       *)
(* (variable script).  The files the scripts read are inputs: the content  *)
(* of a file is chosen when the code opens it.                             *)
(*                                                                         *)
(* Python's float results of "/" are kept as exact fractions <<n, d>> in   *)
(* lowest terms; float('inf') is INF.  A 13 character millisecond epoch is *)
(* kept as its offset ms from 1680000000000, so that                       *)
(* int(int(text) / 1000) = 1680000000 + ms \div 1000.                      *)
(***************************************************************************)
EXTENDS Integers, Sequences, FiniteSets, TLC

VARIABLES
    script,       \* "pareto" | "breakdown": which script runs
    pc,           \* position in ReadFile
    fault,        \* the exception that ended the run, NoFault while running
    repeat_num,   \* pareto: default_config.repeat_num, 0 until line 108 reads it;
                  \* breakdown: the argument of ReadFile
    k,            \* pareto: position of sync_keys in keys (1-based)
    tid,          \* pareto: task id of the inner loop
    start_ts,     \* pareto: earliest coarsened timestamp of the configuration
    temp_dict,    \* pareto: insertion-ordered dict ts -> list of latencies
    col,          \* pareto: relative bins
    coly,         \* pareto: per-bin tail latencies
    latency_dict, \* pareto: insertion-ordered dict sync_keys -> tail latency
    repeat,       \* loop variable of the repeat loop
    i,            \* column index of the timer loops (0-based)
    y,            \* pareto: h x w matrix; breakdown: h lists
    sync_time, replication_time, update_time,
    completion_time_dict,
    x_axis, y_axis,
    rate,         \* breakdown: position of per_task_rate in the rate list
    col_y,        \* breakdown: h x w matrix of one rate
    samples,      \* history: how often each sample line was read, this configuration
    seen,         \* history: per task id enumerated, "missing" or "read", this configuration
    total,        \* history: per phase and column, the sum of the durations the runs reported
    runs          \* history: per column, what the runs reported so far

vars == <<script, pc, fault, repeat_num, k, tid, start_ts, temp_dict, col, coly,
          latency_dict, repeat, i, y, sync_time, replication_time, update_time,
          completion_time_dict, x_axis, y_axis, rate, col_y,
          samples, seen, total, runs>>

----------------------------------------------------------------------------
(* Bounds of the model *)

NumTasks == 2         \* task ids enumerated per configuration (range(0, 8))
MaxLines == 2         \* lines of one trace file
w == 2                \* pareto: configurations of the sweep (w = 7, len(keys))
NumRates == 2         \* breakdown: input rates of the sweep (4)
MaxRepeat == 3        \* pareto: largest repeat_num
MaxRepeatArg == 2     \* breakdown: largest repeat_num argument
MaxBin == 300         \* bin sizes the percentile rank is evaluated for

(* Program constants *)

h == 3                \* pareto: w, h = 7, 3
w_b == 3              \* breakdown: w, h = 3, 3
h_b == 3
INF == 2147483647     \* float('inf')

keys == SubSeq(<<1, 2, 4, 8, 16, 32, 64>>, 1, w)
x_values == SubSeq(<<1000, 2000, 4000, 8000>>, 1, NumRates)
timers_plot == <<"sync", "replication", "update">>

NoFault == [exc |-> "none", at |-> 0]
Raise(e, line) == [exc |-> e, at |-> line]

----------------------------------------------------------------------------
(* Lists, insertion-ordered dicts, fractions *)

RECURSIVE Insert(_, _)
Insert(s, x) ==
    IF s = <<>> THEN <<x>>
    ELSE IF x <= Head(s) THEN <<x>> \o s
    ELSE <<Head(s)>> \o Insert(Tail(s), x)

RECURSIVE Sort(_)
Sort(s) == IF s = <<>> THEN <<>> ELSE Insert(Sort(Tail(s)), Head(s))

Last(s) == s[Len(s)]

ZeroMatrix(rows, cols) == [j \in 0..rows-1 |-> [c \in 0..cols-1 |-> 0]]

DictKeys(d) == {d[n].key : n \in DOMAIN d}
DictGet(d, key) == d[CHOOSE n \in DOMAIN d : d[n].key = key].val
DictValues(d) == [n \in DOMAIN d |-> d[n].val]
DictSet(d, key, val) ==
    IF key \in DictKeys(d)
    THEN [n \in DOMAIN d |-> IF d[n].key = key THEN [key |-> key, val |-> val] ELSE d[n]]
    ELSE Append(d, [key |-> key, val |-> val])

RECURSIVE GCD(_, _)
GCD(a, b) == IF b = 0 THEN a ELSE GCD(b, a % b)

TrueDiv(a, b) == LET g == GCD(a, b) IN IF a = 0 THEN <<0, 1>> ELSE <<a \div g, b \div g>>
FracAdd(p, q) == TrueDiv(p[1] * q[2] + q[1] * p[2], p[2] * q[2])
Zero == <<0, 1>>

----------------------------------------------------------------------------
(* Trace files *)

SampleLines ==
    { [lat |-> TRUE, ts |-> TRUE, ms |-> 0,    latency |-> 42],
      [lat |-> TRUE, ts |-> TRUE, ms |-> 999,  latency |-> 58],
      [lat |-> TRUE, ts |-> TRUE, ms |-> 1000, latency |-> 58] }

OtherLines ==
    { [lat |-> FALSE, ts |-> FALSE, ms |-> 0, latency |-> 0],
      [lat |-> FALSE, ts |-> TRUE,  ms |-> 0, latency |-> 0],
      [lat |-> TRUE,  ts |-> FALSE, ms |-> 0, latency |-> 7] }

Lines == SampleLines \cup OtherLines

Files == UNION {[1..n -> Lines] : n \in 0..MaxLines}

Ts(r) == 1680000000 + (r.ms \div 1000)

StartTsLatest(start, ts) == ts

StartTs(start, ts) == IF ts < start THEN ts ELSE start

LineStep(st, r) ==
    IF ~r.lat THEN st
    ELSE IF ~r.ts THEN [st EXCEPT !.fault = Raise("IndexError", 83)]
    ELSE LET ts == Ts(r)
             d  == IF ts \in DictKeys(st.temp_dict) THEN st.temp_dict
                   ELSE DictSet(st.temp_dict, ts, <<>>)
         IN  [st EXCEPT !.start_ts = StartTs(st.start_ts, ts),
                        !.temp_dict = DictSet(d, ts, Append(DictGet(d, ts), r.latency))]

RECURSIVE ProcessLines(_, _)
ProcessLines(st, read) ==
    IF read = <<>> \/ st.fault # NoFault THEN st
    ELSE ProcessLines(LineStep(st, Head(read)), Tail(read))

Rank(n) == (n * 99) \div 100

SortedBins(d) == [n \in DOMAIN d |-> [key |-> d[n].key, val |-> Sort(d[n].val)]]
BinTails(d) == [n \in DOMAIN d |-> Sort(d[n].val)[Rank(Len(d[n].val)) + 1]]
RelativeBins(d, start) == [n \in DOMAIN d |-> d[n].key - start]

TailScalarUnsorted(c) == Last(c)

TailScalar(c) == Last(Sort(c))

SkipMissingBreak(t) == NumTasks

SkipMissing(t) == t + 1

RECURSIVE Occurrences(_, _)
Occurrences(read, r) ==
    IF read = <<>> THEN 0
    ELSE (IF Head(read) = r THEN 1 ELSE 0) + Occurrences(Tail(read), r)

NoSamples == [s \in SampleLines |-> 0]

----------------------------------------------------------------------------
(* pareto_curve_batching.py: the latency loop *)

AfterTask(t) == IF t = NumTasks THEN "bins" ELSE "task"

BeginConfig ==
    /\ script = "pareto" /\ pc = "config"
    /\ col' = <<>> /\ coly' = <<>> /\ start_ts' = INF /\ temp_dict' = <<>>
    /\ tid' = 0
    /\ samples' = NoSamples /\ seen' = <<>>
    /\ pc' = AfterTask(0)
    /\ UNCHANGED <<script, fault, repeat_num, k, latency_dict, repeat, i, y, sync_time,
                   replication_time, update_time, completion_time_dict, x_axis, y_axis,
                   rate, col_y, total, runs>>

MissingTask ==
    /\ script = "pareto" /\ pc = "task"
    /\ tid' = SkipMissing(tid)
    /\ seen' = Append(seen, "missing")
    /\ pc' = AfterTask(tid')
    /\ UNCHANGED <<script, fault, repeat_num, k, start_ts, temp_dict, col, coly,
                   latency_dict, repeat, i, y, sync_time, replication_time, update_time,
                   completion_time_dict, x_axis, y_axis, rate, col_y, samples, total, runs>>

ReadTask ==
    /\ script = "pareto" /\ pc = "task"
    /\ \E read \in Files :
         LET st == ProcessLines([start_ts |-> start_ts, temp_dict |-> temp_dict,
                                 fault |-> NoFault], read)
         IN  /\ start_ts' = st.start_ts
             /\ temp_dict' = st.temp_dict
             /\ fault' = st.fault
             /\ samples' = [s \in SampleLines |-> samples[s] + Occurrences(read, s)]
             /\ seen' = Append(seen, "read")
             /\ IF st.fault # NoFault
                THEN pc' = "fault" /\ tid' = tid
                ELSE tid' = tid + 1 /\ pc' = AfterTask(tid + 1)
    /\ UNCHANGED <<script, repeat_num, k, col, coly, latency_dict, repeat, i, y,
                   sync_time, replication_time, update_time, completion_time_dict,
                   x_axis, y_axis, rate, col_y, total, runs>>

ComputeBins ==
    /\ script = "pareto" /\ pc = "bins"
    /\ temp_dict' = SortedBins(temp_dict)
    /\ coly' = BinTails(temp_dict)
    /\ col' = RelativeBins(temp_dict, start_ts)
    /\ pc' = "store"
    /\ UNCHANGED <<script, fault, repeat_num, k, tid, start_ts, latency_dict, repeat, i, y,
                   sync_time, replication_time, update_time, completion_time_dict,
                   x_axis, y_axis, rate, col_y, samples, seen, total, runs>>

StoreLatency ==
    /\ script = "pareto" /\ pc = "store"
    /\ coly' = Sort(coly)
    /\ IF coly = <<>>
       THEN /\ fault' = Raise("IndexError", 106) /\ pc' = "fault"
            /\ UNCHANGED <<latency_dict, k>>
       ELSE /\ latency_dict' = DictSet(latency_dict, keys[k], TailScalar(coly))
            /\ k' = k + 1
            /\ pc' = IF k = Len(keys) THEN "repeat" ELSE "config"
            /\ UNCHANGED fault
    /\ UNCHANGED <<script, repeat_num, tid, start_ts, temp_dict, col, repeat, i, y,
                   sync_time, replication_time, update_time, completion_time_dict,
                   x_axis, y_axis, rate, col_y, samples, seen, total, runs>>

----------------------------------------------------------------------------
(* Timer files: what breakdown_total returns for one read of timer.output *)

StatsSet ==
    { <<>>,
      ("sync" :> 20),
      ("sync" :> 10 @@ "replication" :> 5 @@ "update" :> 3) }

WorkloadStats ==
    { ("sync" :> 10),
      ("sync" :> 10 @@ "replication" :> 5 @@ "update" :> 3) }

Accumulate(old, stats, phase) ==
    IF phase \notin DOMAIN stats THEN 0 ELSE old + stats[phase]

AddStats(m, c, stats) ==
    [j \in DOMAIN m |-> [m[j] EXCEPT ![c] = Accumulate(@, stats, timers_plot[j + 1])]]

Averaged(m, n) == [j \in DOMAIN m |-> [c \in DOMAIN m[j] |-> TrueDiv(m[j][c], n)]]

Row(m, j, width) == [n \in 1..width |-> m[j][n - 1]]

RECURSIVE SumRows(_, _, _)
SumRows(m, c, rows) ==
    IF rows = 0 THEN Zero ELSE FracAdd(SumRows(m, c, rows - 1), m[rows - 1][c])

CompletionTimeShort(m, c, rows) == SumRows(m, c, rows - 1)

CompletionTime(m, c, rows) == SumRows(m, c, rows)

(* History of the runs: the durations reported, an absent phase counting 0 *)
Duration(stats, phase) == IF phase \in DOMAIN stats THEN stats[phase] ELSE 0

NoRuns(columns) == [c \in columns |-> [kind |-> "none", stats |-> <<>>]]
NoTotal(columns) == [c \in columns |-> [j \in 0..2 |-> 0]]

Observe(rn, c, stats) ==
    [rn EXCEPT ![c] = IF @.kind = "none" THEN [kind |-> "same", stats |-> stats]
                      ELSE IF @.kind = "same" /\ @.stats = stats THEN @
                      ELSE [kind |-> "mixed", stats |-> <<>>]]

AddTotal(tt, c, stats) ==
    [tt EXCEPT ![c] = [j \in 0..2 |-> @[j] + Duration(stats, timers_plot[j + 1])]]

----------------------------------------------------------------------------
(* pareto_curve_batching.py: the repeat loop, the averages, the curve *)

EnterRepeatLoop ==
    /\ script = "pareto" /\ pc = "repeat"
    /\ repeat_num' \in 1..MaxRepeat
    /\ repeat' = 1 /\ i' = 0
    \* the locals of the latency loop are dead from here on
    /\ tid' = 0 /\ start_ts' = INF /\ temp_dict' = <<>> /\ col' = <<>> /\ coly' = <<>>
    /\ samples' = NoSamples /\ seen' = <<>>
    /\ pc' = "timer"
    /\ UNCHANGED <<script, fault, k, latency_dict, y, sync_time,
                   replication_time, update_time, completion_time_dict, x_axis, y_axis,
                   rate, col_y, total, runs>>

ReadTimer ==
    /\ script = "pareto" /\ pc = "timer"
    /\ \E stats \in StatsSet :
         /\ y' = AddStats(y, i, stats)
         /\ total' = AddTotal(total, i, stats)
         /\ runs' = Observe(runs, i, stats)
    /\ IF i + 1 < Len(keys)
       THEN i' = i + 1 /\ pc' = "timer" /\ UNCHANGED repeat
       ELSE IF repeat < repeat_num
            THEN repeat' = repeat + 1 /\ i' = 0 /\ pc' = "timer"
            ELSE i' = i + 1 /\ pc' = "average" /\ UNCHANGED repeat
    /\ UNCHANGED <<script, fault, repeat_num, k, tid, start_ts, temp_dict, col, coly,
                   latency_dict, sync_time, replication_time, update_time,
                   completion_time_dict, x_axis, y_axis, rate, col_y, samples, seen>>

TimerMissing ==
    /\ script = "pareto" /\ pc = "timer"
    /\ fault' = Raise("FileNotFoundError", 117)
    /\ pc' = "fault"
    /\ UNCHANGED <<script, repeat_num, k, tid, start_ts, temp_dict, col, coly,
                   latency_dict, repeat, i, y, sync_time, replication_time, update_time,
                   completion_time_dict, x_axis, y_axis, rate, col_y, samples, seen,
                   total, runs>>

Average ==
    /\ script = "pareto" /\ pc = "average"
    /\ y' = Averaged(y, repeat_num)
    /\ sync_time' = Row(y', 0, w)
    /\ replication_time' = Row(y', 1, w)
    /\ update_time' = Row(y', 2, w)
    /\ i' = w - 1
    /\ pc' = "completion"
    /\ UNCHANGED <<script, fault, repeat_num, k, tid, start_ts, temp_dict, col, coly,
                   latency_dict, repeat, completion_time_dict, x_axis, y_axis,
                   rate, col_y, samples, seen, total, runs>>

Completion ==
    /\ script = "pareto" /\ pc = "completion"
    /\ completion_time_dict' =
         [n \in 1..w |-> [key |-> keys[n], val |-> CompletionTime(y, n - 1, h)]]
    /\ pc' = "return"
    /\ UNCHANGED <<script, fault, repeat_num, k, tid, start_ts, temp_dict, col, coly,
                   latency_dict, repeat, i, y, sync_time, replication_time, update_time,
                   x_axis, y_axis, rate, col_y, samples, seen, total, runs>>

Return ==
    /\ script = "pareto" /\ pc = "return"
    /\ x_axis' = <<keys, keys, keys>>
    /\ y_axis' = <<sync_time, update_time, DictValues(latency_dict)>>
    /\ pc' = "done"
    /\ UNCHANGED <<script, fault, repeat_num, k, tid, start_ts, temp_dict, col, coly,
                   latency_dict, repeat, i, y, sync_time, replication_time, update_time,
                   completion_time_dict, rate, col_y, samples, seen, total, runs>>

----------------------------------------------------------------------------
(* breakdown_batching_input_rate.py: ReadFile(repeat_num) *)

BColumns == (1..NumRates) \X (0..w_b-1)

ColumnTotals(m, n) == [c \in 0..w_b-1 |-> CompletionTime(Averaged(m, n), c, h_b)]

BeginRate ==
    /\ script = "breakdown" /\ pc = "rate"
    /\ i' = 0
    /\ col_y' = ZeroMatrix(h_b, w_b)
    /\ pc' = "timer"
    /\ UNCHANGED <<script, fault, repeat_num, k, tid, start_ts, temp_dict, col, coly,
                   latency_dict, repeat, y, sync_time, replication_time, update_time,
                   completion_time_dict, x_axis, y_axis, rate, samples, seen,
                   total, runs>>

WorkloadTimer ==
    /\ script = "breakdown" /\ pc = "timer"
    /\ \E stats \in WorkloadStats :
         /\ col_y' = AddStats(col_y, i, stats)
         /\ total' = AddTotal(total, <<rate, i>>, stats)
         /\ runs' = Observe(runs, <<rate, i>>, stats)
    /\ i' = i + 1
    /\ pc' = IF i + 1 < 3 THEN "timer" ELSE "append"
    /\ UNCHANGED <<script, fault, repeat_num, k, tid, start_ts, temp_dict, col, coly,
                   latency_dict, repeat, y, sync_time, replication_time, update_time,
                   completion_time_dict, x_axis, y_axis, rate, samples, seen>>

WorkloadTimerMissing ==
    /\ script = "breakdown" /\ pc = "timer"
    /\ fault' = Raise("FileNotFoundError", 32)
    /\ pc' = "fault"
    /\ UNCHANGED <<script, repeat_num, k, tid, start_ts, temp_dict, col, coly,
                   latency_dict, repeat, i, y, sync_time, replication_time, update_time,
                   completion_time_dict, x_axis, y_axis, rate, col_y, samples, seen,
                   total, runs>>

AverageAppend ==
    /\ script = "breakdown" /\ pc = "append"
    /\ col_y' = Averaged(col_y, repeat_num)
    /\ y' = [c \in DOMAIN y |-> Append(y[c], ColumnTotals(col_y, repeat_num)[c])]
    /\ i' = w_b - 1
    /\ IF rate < Len(x_values)
       THEN rate' = rate + 1 /\ pc' = "rate" /\ UNCHANGED repeat
       ELSE IF repeat < repeat_num
            THEN rate' = 1 /\ repeat' = repeat + 1 /\ pc' = "rate"
            ELSE pc' = "done" /\ UNCHANGED <<rate, repeat>>
    /\ UNCHANGED <<script, fault, repeat_num, k, tid, start_ts, temp_dict, col, coly,
                   latency_dict, sync_time, replication_time, update_time,
                   completion_time_dict, x_axis, y_axis, samples, seen, total, runs>>

----------------------------------------------------------------------------
InitPareto ==
    /\ script = "pareto"
    /\ pc = "config"
    /\ repeat_num = 0
    /\ y = ZeroMatrix(h, w)
    /\ total = NoTotal(0..w-1)
    /\ runs = NoRuns(0..w-1)

InitBreakdown ==
    /\ script = "breakdown"
    /\ pc = "rate"
    /\ repeat_num \in 1..MaxRepeatArg
    /\ y = [c \in 0..h_b-1 |-> <<>>]
    /\ total = NoTotal(BColumns)
    /\ runs = NoRuns(BColumns)

Init ==
    /\ InitPareto \/ InitBreakdown
    /\ fault = NoFault
    /\ k = 1 /\ tid = 0 /\ start_ts = INF /\ temp_dict = <<>>
    /\ col = <<>> /\ coly = <<>> /\ latency_dict = <<>>
    /\ repeat = 1 /\ i = 0
    /\ sync_time = <<>> /\ replication_time = <<>> /\ update_time = <<>>
    /\ completion_time_dict = <<>>
    /\ x_axis = <<>> /\ y_axis = <<>>
    /\ rate = 1 /\ col_y = ZeroMatrix(h_b, w_b)
    /\ samples = NoSamples /\ seen = <<>>

NextLatency ==
    \/ BeginConfig
    \/ MissingTask
    \/ ReadTask
    \/ ComputeBins
    \/ StoreLatency

Next ==
    \/ NextLatency
    \/ EnterRepeatLoop
    \/ ReadTimer
    \/ TimerMissing
    \/ Average
    \/ Completion
    \/ Return
    \/ BeginRate
    \/ WorkloadTimer
    \/ WorkloadTimerMissing
    \/ AverageAppend

Spec == Init /\ [][Next]_vars

\* the latency loop of pareto_curve_batching.py alone (lines 62-106)
InitLatency == Init /\ script = "pareto"
SpecLatency == InitLatency /\ [][NextLatency]_vars

\* both scripts, no timer.output rewritten while the script runs: every read
\* of a configuration's timer file returns what its first read returned
Static == \A c \in DOMAIN runs : runs[c].kind # "mixed"
ReadTimerStatic == ReadTimer /\ Static'
WorkloadTimerStatic == WorkloadTimer /\ Static'
NextStatic ==
    \/ NextLatency
    \/ EnterRepeatLoop
    \/ ReadTimerStatic
    \/ TimerMissing
    \/ Average
    \/ Completion
    \/ Return
    \/ BeginRate
    \/ WorkloadTimerStatic
    \/ WorkloadTimerMissing
    \/ AverageAppend
SpecStatic == Init /\ [][NextStatic]_vars

----------------------------------------------------------------------------
(* What the trace files of the current configuration hold, computed from   *)
(* the history alone: bins as multisets, the order statistic by counting.  *)

RECURSIVE SumSamples(_)
SumSamples(S) ==
    IF S = {} THEN 0
    ELSE LET s == CHOOSE x \in S : TRUE IN samples[s] + SumSamples(S \ {s})

Latencies == {s.latency : s \in SampleLines}
Bins == {1680000000 + (s.ms \div 1000) : s \in {x \in SampleLines : samples[x] > 0}}
InBin(b) == {s \in SampleLines : 1680000000 + (s.ms \div 1000) = b}
CountEq(b, v) == SumSamples({s \in InBin(b) : s.latency = v})
CountLE(b, v) == SumSamples({s \in InBin(b) : s.latency <= v})
BinSize(b) == SumSamples(InBin(b))

\* sorted(bin)[r], r counted from 0
OrderStat(b, r) ==
    CHOOSE v \in Latencies :
        /\ CountLE(b, v) > r
        /\ \A u \in Latencies : u < v => CountLE(b, u) <= r

SetMax(S) == CHOOSE m \in S : \A x \in S : x <= m
SetMin(S) == CHOOSE m \in S : \A x \in S : m <= x

MaxOfBinP99 == SetMax({OrderStat(b, (99 * BinSize(b)) \div 100) : b \in Bins})

RECURSIVE CountIn(_, _)
CountIn(list, v) ==
    IF list = <<>> THEN 0
    ELSE (IF Head(list) = v THEN 1 ELSE 0) + CountIn(Tail(list), v)

JustStored == script = "pareto" /\ pc \in {"config", "repeat"} /\ k > 1

L0 == [lat |-> TRUE, ts |-> TRUE, ms |-> 0, latency |-> 42]
L999 == [lat |-> TRUE, ts |-> TRUE, ms |-> 999, latency |-> 58]
L1000 == [lat |-> TRUE, ts |-> TRUE, ms |-> 1000, latency |-> 58]

----------------------------------------------------------------------------
C8_MissingTasksContributeNothing ==
    /\ fault.at # 78
    /\ (script = "pareto" /\ pc \in {"task", "bins"}) =>
          /\ Len(seen) = tid
          /\ DictKeys(temp_dict) = Bins
          /\ \A n \in DOMAIN temp_dict : \A v \in Latencies :
                CountIn(temp_dict[n].val, v) = CountEq(temp_dict[n].key, v)
    /\ (script = "pareto" /\ pc = "bins") => Len(seen) = NumTasks

\* the first task is missing, a later one was read and its samples are in the bins
C8_Witness ==
    /\ script = "pareto" /\ pc = "bins"
    /\ seen[1] = "missing" /\ seen[NumTasks] = "read"
    /\ Len(temp_dict) = 2

(* C9: the start offset of a configuration is the minimum coarsened        *)
(* timestamp over all its samples; it is reset for each configuration and  *)
(* no relative bin is computed before every task was read; every relative  *)
(* bin is >= 0 and exactly one is 0.  Samples at 1680000000000 (42) and    *)
(* 1680000001000 (58) give the bins 0 and 1 and the scalar 58.             *)
C9_StartOffsetIsMinimum ==
    /\ (script = "pareto" /\ pc = "task" /\ tid = 0) =>
          start_ts = INF /\ temp_dict = <<>>
    /\ (script = "pareto" /\ pc = "task") => col = <<>>
    /\ (script = "pareto" /\ pc \in {"task", "bins", "store"} /\ Bins # {}) =>
          start_ts = SetMin(Bins)
    /\ (script = "pareto" /\ (pc = "store" \/ JustStored) /\ Bins # {}) =>
          /\ Len(col) = Cardinality(Bins)
          /\ \A n \in DOMAIN col : col[n] >= 0 /\ col[n] + SetMin(Bins) \in Bins
          /\ Cardinality({n \in DOMAIN col : col[n] = 0}) = 1
    /\ (JustStored /\ samples = [s \in SampleLines |-> IF s \in {L0, L1000} THEN 1 ELSE 0]) =>
          /\ {col[n] : n \in DOMAIN col} = {0, 1}
          /\ DictGet(latency_dict, keys[k - 1]) = 58

\* the second configuration, its later sample read first: the offset moved down
C9_Witness ==
    /\ JustStored /\ k = 3
    /\ samples = [s \in SampleLines |-> IF s \in {L0, L1000} THEN 1 ELSE 0]
    /\ col = <<1, 0>>
    /\ DictValues(latency_dict) = <<42, 58>>

(* C10: the completion-time scalar of a configuration is the sum of its    *)
(* three averaged phase durations (the values after the division by        *)
(* repeat_num), of that configuration's column only.                       *)
C10_CompletionIsSumOfAverages ==
    /\ (script = "pareto" /\ pc \in {"return", "done"}) =>
          /\ Len(completion_time_dict) = Len(keys)
          /\ \A n \in 1..Len(keys) :
                /\ completion_time_dict[n].key = keys[n]
                /\ completion_time_dict[n].val =
                      FracAdd(FracAdd(sync_time[n], replication_time[n]), update_time[n])
    /\ (script = "breakdown" /\ pc \in {"rate", "done"} /\ Len(y[0]) > 0) =>
          \A c \in 0..(w_b - 1) :
              Last(y[c]) = FracAdd(FracAdd(col_y[0][c], col_y[1][c]), col_y[2][c])

\* two repeats: one configuration reported 10, 5, 3 twice, the other sync 20 twice
C10_Witness ==
    /\ script = "pareto" /\ pc = "done" /\ repeat_num = 2
    /\ DictValues(completion_time_dict) = << <<18, 1>>, <<20, 1>> >>

----------------------------------------------------------------------------
(* Claims the code does not meet: each definition states the claim.        *)

(* C2: a configuration without any latency sample gets a defined sentinel  *)
(* as its tail-latency scalar and raises no fault, so its key is stored    *)
(* and the next configuration is processed.                                *)
C2_EmptyConfigurationGetsSentinel ==
    /\ fault.at # 106
    /\ JustStored => keys[k - 1] \in DictKeys(latency_dict)

(* C3: after the repeat loop and the division, the averaged duration of    *)
(* every phase of every configuration is (the sum over the R runs of the   *)
(* phase's duration, an absent phase counting 0) / R.                      *)
C3_AverageCountsAbsentAsZero ==
    /\ (script = "pareto" /\ pc \in {"completion", "return", "done"}) =>
          \A c \in 0..(w - 1) : \A j \in 0..2 :
              y[j][c] = TrueDiv(total[c][j], repeat_num)
    /\ (script = "breakdown" /\ pc = "done") =>
          \A c \in 0..(w_b - 1) : \A j \in 0..2 :
              col_y[j][c] = TrueDiv(total[<<Len(x_values), c>>][j], repeat_num)

(* C4: every y series handed to the renderer has as many entries as the    *)
(* x_values it is plotted against, for every repeat_num >= 1.              *)
C4_SeriesAlignedWithXValues ==
    /\ (script = "pareto" /\ pc = "done") =>
          /\ Len(sync_time) = Len(keys) /\ Len(update_time) = Len(keys)
          /\ \A n \in 1..3 : Len(y_axis[n]) = Len(x_axis[n])
    /\ (script = "breakdown" /\ pc = "done") =>
          \A c \in 0..(h_b - 1) : Len(y[c]) = Len(x_values)

(* C5: when every run of a configuration reports the same durations for    *)
(* the three phases, the pareto averages are exactly those durations and   *)
(* the breakdown completion time is exactly the single-run total.          *)
C5_IdenticalRunsAverageToThemselves ==
    /\ (script = "pareto" /\ pc = "done") =>
          \A c \in 0..(w - 1) :
              (runs[c].kind = "same" /\ DOMAIN runs[c].stats = {"sync", "replication", "update"}) =>
                  /\ sync_time[c + 1] = <<runs[c].stats["sync"], 1>>
                  /\ replication_time[c + 1] = <<runs[c].stats["replication"], 1>>
                  /\ update_time[c + 1] = <<runs[c].stats["update"], 1>>
    /\ (script = "breakdown" /\ pc = "done") =>
          \A c \in 0..(w_b - 1) : \A n \in DOMAIN y[c] :
              LET r == ((n - 1) % Len(x_values)) + 1
                  st == runs[<<r, c>>]
              IN  (st.kind = "same" /\ DOMAIN st.stats = {"sync", "replication", "update"}) =>
                      y[c][n] = <<st.stats["sync"] + st.stats["replication"] + st.stats["update"], 1>>

(* C6: a missing timer file is recovered locally: no fault is surfaced and *)
(* the loop goes on with the remaining configurations and repeats.         *)
C6_MissingTimerFileRecovered ==
    fault.exc # "FileNotFoundError"

(* C7: a line without both markers is skipped silently: it adds no sample  *)
(* and raises no fault, also when it holds "endToEnd latency: " but no     *)
(* "ts: ".                                                                 *)
C7_LineWithoutMarkersSkipped ==
    /\ fault.at # 83
    /\ (script = "pareto" /\ pc = "task") =>
          \A r \in {x \in OtherLines : ~x.lat} :
              LineStep([start_ts |-> start_ts, temp_dict |-> temp_dict, fault |-> NoFault], r)
                  = [start_ts |-> start_ts, temp_dict |-> temp_dict, fault |-> NoFault]

====
